---- MODULE Spec2Model ----
(***************************************************************************)
(* A model of the naive Bayes phishing classifier of                       *)
(* Phishing_Website_Classification.ipynb: the feature impact ranker, the   *)
(* conditional probability estimator, the model file, the predictor and    *)
(* the evaluator.                                                          *)
(*                                                                         *)
(* A probability (count + 1) / (total + 2) is kept as the pair             *)
(* <<numerator, denominator>> of the division that produces it.  A Python  *)
(* dict is a function on its keys; its values carry the Python type in t.  *)
(***************************************************************************)
EXTENDS Integers, Sequences, FiniteSets, TLC

VARIABLES
    data_raw,            \* the loaded dataset, a sequence of rows
    data_train,          \* the training partition
    data_test,           \* the test partition
    threshold,           \* calc_feature_impact's threshold argument
    n_features,          \* calc_feature_impact's n_features argument
    sorted_ratios,       \* calc_feature_impact's sorted_ratios: <<column, ratio>> pairs
    most_impact,         \* the selected feature names X
    probs_given_y,       \* the conditional probability table (a dict)
    p_y,                 \* the prior P(Y = 1)
    train_status,        \* "none", "ok", or the exception train raised
    model_txt,           \* the contents of model.txt
    model,               \* what load_model returned
    site,                \* the record handed to the last prediction call
    outcome,             \* the last prediction call's result or exception
    test_status,         \* where the call of test is: "idle", "loop", "returned", or the exception
    test_model,          \* test's locals probs_given_y and p_y
    test_done,           \* the number of test records the loop has processed
    correctly_phish,     \* test's tallies
    correctly_not_phish,
    predicted_phish,
    actual_phish,
    printed              \* the metrics test has printed, <<name, <<numerator, denominator>>>>

tableVars == <<data_raw, data_train, data_test>>

rankVars == <<threshold, n_features, sorted_ratios>>

modelVars == <<probs_given_y, p_y, train_status>>

fileVars == <<model_txt, model>>

callVars == <<site, outcome>>

tallyVars == <<correctly_phish, correctly_not_phish, predicted_phish, actual_phish>>

testVars == <<test_status, test_model, test_done, tallyVars, printed>>

vars == <<tableVars, rankVars, most_impact, modelVars, fileVars, callVars, testVars>>

-----------------------------------------------------------------------------
(* Bounds *)

\* the greatest number of rows of a dataset
MaxRows == 4

\* the greatest n_features handed to calc_feature_impact
MaxK == 5

-----------------------------------------------------------------------------
(* The table *)

\* data_raw.dtype.names: an identifier column, the feature columns, the label
names == <<"id", "Prefix_Suffix", "p_y", "Result">>

\* the discrete codes a feature takes in the dataset's encoding
Codes == {-1, 0, 1}

\* the codes each feature column of the table takes: both columns are binary,
\* as Prefix_Suffix is
ColumnValues == <<{-1, 1}, {-1, 1}>>

Labels == {-1, 1}

Range(s) == {s[i] : i \in 1..Len(s)}

\* the candidate feature columns, range(1, len(data_raw[0]) - 1) counted from 1
FeatureColumns == 2..(Len(names) - 1)

FeatureNames == {names[i] : i \in FeatureColumns}

\* str(value) of an integer feature code
str(v) == ToString(v)

\* The kinds of row content <<feature 1, feature 2, Result>>.
RowKinds == ColumnValues[1] \X ColumnValues[2] \X Labels

\* The members of a set in a fixed order.
RECURSIVE InOrder(_)
InOrder(S) == IF S = {} THEN <<>>
              ELSE LET x == CHOOSE y \in S : TRUE IN <<x>> \o InOrder(S \ {x})

KindOrder == InOrder(RowKinds)

\* A row of the structured array, read by column name; its id is its position.
Row(id, kind) == [n \in Range(names) |->
                    IF n = names[1] THEN id
                    ELSE IF n = names[Len(names)] THEN kind[3]
                    ELSE kind[(CHOOSE i \in FeatureColumns : names[i] = n) - 1]]

\* The sequences of n row kinds in non-decreasing order: the ranker, the
\* estimator and the predictor only count rows, so one order per multiset is kept.
RECURSIVE KindSeqs(_)
KindSeqs(n) ==
    IF n = 0 THEN {<<>>}
    ELSE UNION {{Append(s, k) : k \in (IF Len(s) = 0 THEN 1 ELSE s[Len(s)])..Len(KindOrder)}
                : s \in KindSeqs(n - 1)}

MakeRows(ks) == [i \in 1..Len(ks) |-> Row(i, KindOrder[ks[i]])]

Datasets == UNION {{MakeRows(ks) : ks \in KindSeqs(n)} : n \in 0..MaxRows}

\* The lists of distinct feature names a ranking can select.
FeatureLists ==
    {<<>>} \cup {<<f>> : f \in FeatureNames}
           \cup {fg \in FeatureNames \X FeatureNames : fg[1] # fg[2]}

\* The records handed to prediction: a value for each feature name.
Sites == [FeatureNames -> Codes]

-----------------------------------------------------------------------------
(* Python values *)

PyDict(d) == [t |-> "dict", v |-> d]

PyFloat(q) == [t |-> "float", v |-> q]

None == [t |-> "None", v |-> <<>>]

\* d[key] = value on a dict: the key is added or its value replaced
SetItem(d, key, value) == [k \in DOMAIN d \cup {key} |-> IF k = key THEN value ELSE d[k]]

\* the empty dict
EmptyDict == [k \in {} |-> None]

-----------------------------------------------------------------------------
(* Conditional Probability Estimator *)

\* cond_prob without the Laplace smoothing
cond_prob_unsmoothed(feat, feat_val, y, data) ==
    LET y_tot == Cardinality({i \in 1..Len(data) : data[i]["Result"] = y})
        feat_given_y == Cardinality({i \in 1..Len(data) :
                            data[i]["Result"] = y /\ data[i][feat] = feat_val})
    IN  <<feat_given_y, y_tot>>

\* the counters of the loop over data, then (feat_given_y + 1) / (y_tot + 2)
cond_prob(feat, feat_val, y, data) ==
    LET y_tot == Cardinality({i \in 1..Len(data) : data[i]["Result"] = y})
        feat_given_y == Cardinality({i \in 1..Len(data) :
                            data[i]["Result"] = y /\ data[i][feat] = feat_val})
    IN  <<feat_given_y + 1, y_tot + 2>>

\* dict.fromkeys(X, set()) binds every key to the one set object, so each add
\* lands in the set all the keys share.
calc_support(X, data) ==
    LET shared == {data[i][X[j]] : i \in 1..Len(data), j \in 1..Len(X)}
    IN  [X_i \in Range(X) |-> shared]

calc_probs_given_y(X, data) ==
    LET support == calc_support(X, data)
    IN  [X_i \in Range(X) |->
            PyDict([key \in {str(w) : w \in support[X_i]} |->
                      LET val == CHOOSE w \in support[X_i] : str(w) = key
                      IN  <<cond_prob(X_i, val, -1, data), cond_prob(X_i, val, 1, data)>>])]

calc_p_y(data) ==
    LET tot_phish == Cardinality({i \in 1..Len(data) : data[i]["Result"] = 1})
    IN  <<tot_phish, Len(data)>>

\* train(X, data) returns (probs_given_y, p_y)
train(X, data) == <<calc_probs_given_y(X, data), calc_p_y(data)>>

\* calc_p_y divides by len(data)
train_raises(X, data) == Len(data) = 0

-----------------------------------------------------------------------------
(* Floating point.  math.log of a probability is a negative binary64 number.
   Its magnitude is kept exactly, as a count of units of 2^-57 in two limbs
   <<high, low>> of 30 bits: every binary64 number from 2^-5 up to 8 is a
   whole number of such units. *)

LimbBits == 30

MantissaBits == 53

Pow2(n) == 2 ^ n

\* log(n / d) for the pair <<n, d>>, 0 < n < d: the quotient rounded to
\* binary64, then its logarithm as math.log returns it.
LogOfQuotient ==
    <<1, 2>> :> <<93032639, 799252208>> @@ <<1, 3>> :> <<147453245, 362832224>> @@
    <<2, 3>> :> <<54420605, 637321832>> @@ <<1, 4>> :> <<186065279, 524762592>> @@
    <<2, 4>> :> <<93032639, 799252208>> @@ <<3, 4>> :> <<38612034, 161930384>> @@
    <<1, 5>> :> <<216015099, 1035052640>> @@ <<2, 5>> :> <<122982460, 235800432>> @@
    <<3, 5>> :> <<68561854, 672220448>> @@ <<4, 5>> :> <<29949820, 510290048>> @@
    <<1, 6>> :> <<240485885, 88342592>> @@ <<2, 6>> :> <<147453245, 362832224>> @@
    <<3, 6>> :> <<93032639, 799252208>> @@ <<4, 6>> :> <<54420605, 637321832>> @@
    <<5, 6>> :> <<24470785, 127031764>> @@ <<1, 7>> :> <<261175639, 105597696>> @@
    <<2, 7>> :> <<168142999, 380087296>> @@ <<3, 7>> :> <<113722393, 816507296>> @@
    <<4, 7>> :> <<75110359, 654576912>> @@ <<5, 7>> :> <<45160539, 144286840>> @@
    <<6, 7>> :> <<20689754, 17255084>> @@ <<1, 8>> :> <<279097919, 250272960>> @@
    <<2, 8>> :> <<186065279, 524762592>> @@ <<3, 8>> :> <<131644673, 961182592>> @@
    <<4, 8>> :> <<93032639, 799252208>> @@ <<5, 8>> :> <<63082819, 288962160>> @@
    <<6, 8>> :> <<38612034, 161930384>> @@ <<7, 8>> :> <<17922280, 144675312>>

\* log(1 - n / d) for the pair <<n, d>>, 0 < n < d: the quotient rounded to
\* binary64, subtracted from 1, then its logarithm as math.log returns it.
LogOfOneMinusQuotient ==
    <<1, 2>> :> <<93032639, 799252208>> @@ <<1, 3>> :> <<54420605, 637321808>> @@
    <<2, 3>> :> <<147453245, 362832192>> @@ <<1, 4>> :> <<38612034, 161930384>> @@
    <<2, 4>> :> <<93032639, 799252208>> @@ <<3, 4>> :> <<186065279, 524762592>> @@
    <<1, 5>> :> <<29949820, 510290048>> @@ <<2, 5>> :> <<68561854, 672220448>> @@
    <<3, 5>> :> <<122982460, 235800432>> @@ <<4, 5>> :> <<216015099, 1035052672>> @@
    <<1, 6>> :> <<24470785, 127031764>> @@ <<2, 6>> :> <<54420605, 637321808>> @@
    <<3, 6>> :> <<93032639, 799252208>> @@ <<4, 6>> :> <<147453245, 362832192>> @@
    <<5, 6>> :> <<240485885, 88342624>> @@ <<1, 7>> :> <<20689754, 17255064>> @@
    <<2, 7>> :> <<45160539, 144286840>> @@ <<3, 7>> :> <<75110359, 654576912>> @@
    <<4, 7>> :> <<113722393, 816507280>> @@ <<5, 7>> :> <<168142999, 380087296>> @@
    <<6, 7>> :> <<261175639, 105597632>> @@ <<1, 8>> :> <<17922280, 144675312>> @@
    <<2, 8>> :> <<38612034, 161930384>> @@ <<3, 8>> :> <<63082819, 288962160>> @@
    <<4, 8>> :> <<93032639, 799252208>> @@ <<5, 8>> :> <<131644673, 961182592>> @@
    <<6, 8>> :> <<186065279, 524762592>> @@ <<7, 8>> :> <<279097919, 250272960>>

log(q) == LogOfQuotient[q]

log_one_minus(q) == LogOfOneMinusQuotient[q]

\* the number of bits of a positive limb
RECURSIVE BitLength(_)
BitLength(h) == IF h = 0 THEN 0 ELSE 1 + BitLength(h \div 2)

\* a + b of two negative binary64 numbers (x += log(...)): the exact sum of
\* the magnitudes, rounded to 53 significant bits, ties to even.
FloatAdd(a, b) ==
    LET base == Pow2(LimbBits)
        lo0 == a[2] + b[2]
        lo == lo0 % base
        hi == a[1] + b[1] + (lo0 \div base)
        drop == BitLength(hi) + LimbBits - MantissaBits
        q == Pow2(drop)
        r == lo % q
        down == lo - r
        up == \/ 2 * r > q
              \/ 2 * r = q /\ (down \div q) % 2 = 1
        lo1 == IF up THEN down + q ELSE down
    IN  IF drop <= 0 THEN <<hi, lo>>
        ELSE IF lo1 >= base THEN <<hi + 1, lo1 - base>>
        ELSE <<hi, lo1>>

\* a < b for two magnitudes
MagnitudeLess(a, b) == a[1] < b[1] \/ (a[1] = b[1] /\ a[2] < b[2])

\* the comparison turned around: x < y
FloatGreater_reversed(a, b) == MagnitudeLess(b, a)

\* x > y for negative binary64 numbers x and y of magnitudes a and b
FloatGreater(a, b) == MagnitudeLess(a, b)

-----------------------------------------------------------------------------
(* Classifier / Predictor *)

\* The loop of prediction from the i-th feature of X on, with the two sums so
\* far; a failed lookup ends the call with the exception.
RECURSIVE prediction_loop(_, _, _, _, _, _)
prediction_loop(i, X_y_neg1, X_y_1, a_site, X, table) ==
    IF i > Len(X) THEN (IF FloatGreater(X_y_1, X_y_neg1) THEN "True" ELSE "False")
    ELSE LET X_i == X[i] IN
         IF X_i \notin DOMAIN table \/ X_i \notin DOMAIN a_site THEN "KeyError"
         ELSE IF table[X_i].t # "dict" THEN "TypeError"
         ELSE IF str(a_site[X_i]) \notin DOMAIN table[X_i].v THEN "KeyError"
         ELSE LET pair == table[X_i].v[str(a_site[X_i])]
              IN  prediction_loop(i + 1, FloatAdd(X_y_neg1, log(pair[1])),
                                  FloatAdd(X_y_1, log(pair[2])), a_site, X, table)

\* prediction(site, X, probs_given_y, p_y): "True", "False" or the exception.
\* log(1 - p_y) and log(p_y) raise ValueError at 0.
prediction(a_site, X, table, prior) ==
    IF prior[1] = prior[2] \/ prior[1] = 0 THEN "ValueError"
    ELSE prediction_loop(1, log_one_minus(prior), log(prior), a_site, X, table)

-----------------------------------------------------------------------------
(* Model persistence boundary *)

\* json.dump of the model dict: an object of its keys; an inner dict becomes an
\* object, a tuple an array, a float a number that reads back as the same float.
json_dump(d) ==
    [k \in DOMAIN d |->
        IF d[k].t = "dict"
        THEN [t |-> "object", v |-> [x \in DOMAIN d[k].v |-> [t |-> "array", v |-> d[k].v[x]]]]
        ELSE [t |-> "number", v |-> d[k].v]]

\* json.load: an object becomes a dict, an array a list, a number a float.
json_load(text) ==
    [k \in DOMAIN text |->
        IF text[k].t = "object"
        THEN PyDict([x \in DOMAIN text[k].v |-> text[k].v[x].v])
        ELSE PyFloat(text[k].v)]

\* save_model's model after model = probs_given_y; model["p_y"] = p_y.  model
\* is the very dict probs_given_y names.
save_model(table, prior) == SetItem(table, "p_y", PyFloat(prior))

-----------------------------------------------------------------------------
(* Feature Impact Ranker *)

\* (a / b) / (c / d) for <<a, b, c, d>>: each quotient rounded to binary64, then
\* their quotient rounded to binary64; a positive number, kept in units of 2^-57.
RatioOfQuotients ==
    <<1, 2, 1, 3>> :> <<201326592, 0>> @@ <<1, 2, 2, 3>> :> <<100663296, 0>> @@
    <<1, 2, 1, 4>> :> <<268435456, 0>> @@ <<1, 2, 2, 4>> :> <<134217728, 0>> @@
    <<1, 2, 3, 4>> :> <<89478485, 357913936>> @@ <<1, 2, 1, 5>> :> <<335544320, 0>> @@
    <<1, 2, 2, 5>> :> <<167772160, 0>> @@ <<1, 2, 3, 5>> :> <<111848106, 715827888>> @@
    <<1, 2, 4, 5>> :> <<83886080, 0>> @@ <<1, 2, 1, 6>> :> <<402653184, 0>> @@
    <<1, 2, 2, 6>> :> <<201326592, 0>> @@ <<1, 2, 3, 6>> :> <<134217728, 0>> @@
    <<1, 2, 4, 6>> :> <<100663296, 0>> @@ <<1, 2, 5, 6>> :> <<80530636, 858993456>> @@
    <<1, 2, 1, 7>> :> <<469762048, 0>> @@ <<1, 2, 2, 7>> :> <<234881024, 0>> @@
    <<1, 2, 3, 7>> :> <<156587349, 357913952>> @@ <<1, 2, 4, 7>> :> <<117440512, 0>> @@
    <<1, 2, 5, 7>> :> <<93952409, 644245088>> @@ <<1, 2, 6, 7>> :> <<78293674, 715827888>> @@
    <<1, 3, 1, 2>> :> <<89478485, 357913936>> @@ <<2, 3, 1, 2>> :> <<178956970, 715827872>> @@
    <<1, 3, 1, 3>> :> <<134217728, 0>> @@ <<1, 3, 2, 3>> :> <<67108864, 0>> @@
    <<2, 3, 1, 3>> :> <<268435456, 0>> @@ <<2, 3, 2, 3>> :> <<134217728, 0>> @@
    <<1, 3, 1, 4>> :> <<178956970, 715827872>> @@ <<1, 3, 2, 4>> :> <<89478485, 357913936>> @@
    <<1, 3, 3, 4>> :> <<59652323, 596523232>> @@ <<2, 3, 1, 4>> :> <<357913941, 357913920>> @@
    <<2, 3, 2, 4>> :> <<178956970, 715827872>> @@ <<2, 3, 3, 4>> :> <<119304647, 119304640>> @@
    <<1, 3, 1, 5>> :> <<223696213, 357913920>> @@ <<1, 3, 2, 5>> :> <<111848106, 715827872>> @@
    <<1, 3, 3, 5>> :> <<74565404, 477218592>> @@ <<1, 3, 4, 5>> :> <<55924053, 357913936>> @@
    <<2, 3, 1, 5>> :> <<447392426, 715827840>> @@ <<2, 3, 2, 5>> :> <<223696213, 357913920>> @@
    <<2, 3, 3, 5>> :> <<149130808, 954437184>> @@ <<2, 3, 4, 5>> :> <<111848106, 715827872>> @@
    <<1, 3, 1, 6>> :> <<268435456, 0>> @@ <<1, 3, 2, 6>> :> <<134217728, 0>> @@
    <<1, 3, 3, 6>> :> <<89478485, 357913936>> @@ <<1, 3, 4, 6>> :> <<67108864, 0>> @@
    <<1, 3, 5, 6>> :> <<53687091, 214748360>> @@ <<2, 3, 1, 6>> :> <<536870912, 0>> @@
    <<2, 3, 2, 6>> :> <<268435456, 0>> @@ <<2, 3, 3, 6>> :> <<178956970, 715827872>> @@
    <<2, 3, 4, 6>> :> <<134217728, 0>> @@ <<2, 3, 5, 6>> :> <<107374182, 429496720>> @@
    <<1, 4, 1, 2>> :> <<67108864, 0>> @@ <<2, 4, 1, 2>> :> <<134217728, 0>> @@
    <<3, 4, 1, 2>> :> <<201326592, 0>> @@ <<1, 4, 1, 3>> :> <<100663296, 0>> @@
    <<1, 4, 2, 3>> :> <<50331648, 0>> @@ <<2, 4, 1, 3>> :> <<201326592, 0>> @@
    <<2, 4, 2, 3>> :> <<100663296, 0>> @@ <<3, 4, 1, 3>> :> <<301989888, 0>> @@
    <<3, 4, 2, 3>> :> <<150994944, 0>> @@ <<1, 4, 1, 4>> :> <<134217728, 0>> @@
    <<1, 4, 2, 4>> :> <<67108864, 0>> @@ <<1, 4, 3, 4>> :> <<44739242, 715827880>> @@
    <<2, 4, 1, 4>> :> <<268435456, 0>> @@ <<2, 4, 2, 4>> :> <<134217728, 0>> @@
    <<2, 4, 3, 4>> :> <<89478485, 357913936>> @@ <<3, 4, 1, 4>> :> <<402653184, 0>> @@
    <<3, 4, 2, 4>> :> <<201326592, 0>> @@ <<3, 4, 3, 4>> :> <<134217728, 0>> @@
    <<1, 4, 1, 5>> :> <<167772160, 0>> @@ <<1, 4, 2, 5>> :> <<83886080, 0>> @@
    <<1, 4, 3, 5>> :> <<55924053, 357913944>> @@ <<1, 4, 4, 5>> :> <<41943040, 0>> @@
    <<2, 4, 1, 5>> :> <<335544320, 0>> @@ <<2, 4, 2, 5>> :> <<167772160, 0>> @@
    <<2, 4, 3, 5>> :> <<111848106, 715827888>> @@ <<2, 4, 4, 5>> :> <<83886080, 0>> @@
    <<3, 4, 1, 5>> :> <<503316480, 0>> @@ <<3, 4, 2, 5>> :> <<251658240, 0>> @@
    <<3, 4, 3, 5>> :> <<167772160, 0>> @@ <<3, 4, 4, 5>> :> <<125829120, 0>> @@
    <<1, 5, 1, 2>> :> <<53687091, 214748368>> @@ <<2, 5, 1, 2>> :> <<107374182, 429496736>> @@
    <<3, 5, 1, 2>> :> <<161061273, 644245088>> @@ <<4, 5, 1, 2>> :> <<214748364, 858993472>> @@
    <<1, 5, 1, 3>> :> <<80530636, 858993472>> @@ <<1, 5, 2, 3>> :> <<40265318, 429496736>> @@
    <<2, 5, 1, 3>> :> <<161061273, 644245120>> @@ <<2, 5, 2, 3>> :> <<80530636, 858993472>> @@
    <<3, 5, 1, 3>> :> <<241591910, 429496736>> @@ <<3, 5, 2, 3>> :> <<120795955, 214748368>> @@
    <<4, 5, 1, 3>> :> <<322122547, 214748416>> @@ <<4, 5, 2, 3>> :> <<161061273, 644245120>> @@
    <<1, 5, 1, 4>> :> <<107374182, 429496736>> @@ <<1, 5, 2, 4>> :> <<53687091, 214748368>> @@
    <<1, 5, 3, 4>> :> <<35791394, 143165576>> @@ <<2, 5, 1, 4>> :> <<214748364, 858993472>> @@
    <<2, 5, 2, 4>> :> <<107374182, 429496736>> @@ <<2, 5, 3, 4>> :> <<71582788, 286331152>> @@
    <<3, 5, 1, 4>> :> <<322122547, 214748352>> @@ <<3, 5, 2, 4>> :> <<161061273, 644245088>> @@
    <<3, 5, 3, 4>> :> <<107374182, 429496720>> @@ <<4, 5, 1, 4>> :> <<429496729, 644245120>> @@
    <<4, 5, 2, 4>> :> <<214748364, 858993472>> @@ <<4, 5, 3, 4>> :> <<143165576, 572662304>> @@
    <<1, 6, 1, 2>> :> <<44739242, 715827880>> @@ <<2, 6, 1, 2>> :> <<89478485, 357913936>> @@
    <<3, 6, 1, 2>> :> <<134217728, 0>> @@ <<4, 6, 1, 2>> :> <<178956970, 715827872>> @@
    <<5, 6, 1, 2>> :> <<223696213, 357913952>> @@ <<1, 6, 1, 3>> :> <<67108864, 0>> @@
    <<1, 6, 2, 3>> :> <<33554432, 0>> @@ <<2, 6, 1, 3>> :> <<134217728, 0>> @@
    <<2, 6, 2, 3>> :> <<67108864, 0>> @@ <<3, 6, 1, 3>> :> <<201326592, 0>> @@
    <<3, 6, 2, 3>> :> <<100663296, 0>> @@ <<4, 6, 1, 3>> :> <<268435456, 0>> @@
    <<4, 6, 2, 3>> :> <<134217728, 0>> @@ <<5, 6, 1, 3>> :> <<335544320, 64>> @@
    <<5, 6, 2, 3>> :> <<167772160, 32>> @@ <<1, 7, 1, 2>> :> <<38347922, 306783376>> @@
    <<2, 7, 1, 2>> :> <<76695844, 613566752>> @@ <<3, 7, 1, 2>> :> <<115043766, 920350128>> @@
    <<4, 7, 1, 2>> :> <<153391689, 153391680>> @@ <<5, 7, 1, 2>> :> <<191739611, 460175072>> @@
    <<6, 7, 1, 2>> :> <<230087533, 766958432>>

\* ratios[i] of calc_feature_impact for column i (counted from 1) of the table
ratio_of(i, a_threshold, data) ==
    LET rows == 1..Len(data)
        feat_tot == Cardinality({r \in rows : data[r][names[i]] >= a_threshold})
        phishing_feat == Cardinality({r \in rows :
                             data[r][names[i]] >= a_threshold /\ data[r]["Result"] = 1})
        phishing_not_feat == Cardinality({r \in rows :
                                 data[r][names[i]] < a_threshold /\ data[r]["Result"] = 1})
    IN  RatioOfQuotients[<<phishing_feat + 1, feat_tot + 2,
                           phishing_not_feat + 1, Len(data) - feat_tot + 2>>]

\* sorted with reverse=True: descending, equal keys in their given order
RECURSIVE sorted_descending(_)
sorted_descending(items) ==
    IF items = <<>> THEN <<>>
    ELSE LET x == items[Len(items)]
             rest == sorted_descending(SubSeq(items, 1, Len(items) - 1))
             NotAfter(e) == ~MagnitudeLess(e[2], x[2])
             After(e) == MagnitudeLess(e[2], x[2])
         IN  SelectSeq(rest, NotAfter) \o <<x>> \o SelectSeq(rest, After)

\* sorted(items, key=lambda x: x[1]): ascending, equal keys in their given order
RECURSIVE sorted(_)
sorted(items) ==
    IF items = <<>> THEN <<>>
    ELSE LET x == items[Len(items)]
             rest == sorted(SubSeq(items, 1, Len(items) - 1))
             NotAfter(e) == ~MagnitudeLess(x[2], e[2])
             After(e) == MagnitudeLess(x[2], e[2])
         IN  SelectSeq(rest, NotAfter) \o <<x>> \o SelectSeq(rest, After)

\* a_list[start:], a start below 0 counted from the end
slice_from(a_list, start) ==
    LET n == Len(a_list)
        from_end == IF start < 0 THEN start + n ELSE start
        first == IF from_end < 0 THEN 0 ELSE IF from_end > n THEN n ELSE from_end
    IN  SubSeq(a_list, first + 1, n)

\* the ratios dict in the order its keys are inserted
ratio_items(a_threshold, data) ==
    [j \in 1..(Len(names) - 2) |-> <<j + 1, ratio_of(j + 1, a_threshold, data)>>]

\* calc_feature_impact's result, sorted_ratios[len(sorted_ratios) - n_features :]
impact_result(ranking, k) == slice_from(ranking, Len(ranking) - k)

\* the thresholds handed to calc_feature_impact
Thresholds == {-1, 0, 1, 2}

-----------------------------------------------------------------------------
(* Evaluator *)

Exceptions == {"KeyError", "ValueError", "TypeError", "ZeroDivisionError"}

\* The three prints that end test, in order: each division by 0 raises and
\* ends the call with what was printed before it.
report(cp, cnp, pp, ap, n) ==
    IF n = 0 THEN <<"ZeroDivisionError", <<>>>>
    ELSE IF pp = 0 THEN <<"ZeroDivisionError", <<<<"Accuracy", <<cp + cnp, n>>>>>>>>
    ELSE IF ap = 0 THEN <<"ZeroDivisionError", <<<<"Accuracy", <<cp + cnp, n>>>>,
                                                  <<"Precision", <<cp, pp>>>>>>>>
    ELSE <<"returned", <<<<"Accuracy", <<cp + cnp, n>>>>, <<"Precision", <<cp, pp>>>>,
                         <<"Recall", <<cp, ap>>>>>>>>

-----------------------------------------------------------------------------
(* The notebook's cells as actions *)

NoFile == [t |-> "absent", v |-> <<>>]

NoModel == <<EmptyDict, <<0, 1>>>>

InitRank ==
    /\ threshold = 0
    /\ n_features = 0
    /\ sorted_ratios = <<>>

InitModel ==
    /\ probs_given_y = EmptyDict
    /\ p_y = <<0, 1>>
    /\ train_status = "none"
    /\ model_txt = NoFile
    /\ model = None
    /\ site = None
    /\ outcome = "none"

InitTest ==
    /\ test_status = "idle"
    /\ test_model = NoModel
    /\ test_done = 0
    /\ correctly_phish = 0
    /\ correctly_not_phish = 0
    /\ predicted_phish = 0
    /\ actual_phish = 0
    /\ printed = <<>>

\* The state with the training partition and the selected features at hand.
Init ==
    /\ data_raw = <<>>
    /\ data_test = <<>>
    /\ data_train \in Datasets
    /\ most_impact \in FeatureLists
    /\ InitRank /\ InitModel /\ InitTest

\* most_impact = calc_feature_impact(threshold, n_features)
CalcFeatureImpact ==
    /\ Len(data_raw) > 0
    /\ \E t \in Thresholds, k \in 0..MaxK :
          LET ranking == sorted(ratio_items(t, data_raw))
              result == impact_result(ranking, k)
          IN  /\ threshold' = t
              /\ n_features' = k
              /\ sorted_ratios' = ranking
              /\ most_impact' = [j \in 1..Len(result) |-> names[result[j][1]]]
    /\ UNCHANGED <<tableVars, modelVars, fileVars, callVars, testVars>>

\* probs_given_y, p_y = train(most_impact, data_train)
Train ==
    /\ ~train_raises(most_impact, data_train)
    /\ LET trained == train(most_impact, data_train)
       IN  /\ probs_given_y' = trained[1]
           /\ p_y' = trained[2]
    /\ train_status' = "ok"
    /\ UNCHANGED <<tableVars, rankVars, most_impact, fileVars, callVars, testVars>>

\* train raises: the assignment does not happen
TrainRaises ==
    /\ train_raises(most_impact, data_train)
    /\ train_status' = "ZeroDivisionError"
    /\ UNCHANGED <<tableVars, rankVars, most_impact, probs_given_y, p_y, fileVars,
                   callVars, testVars>>

\* print(prediction(real_example, most_impact, probs_given_y, p_y))
Prediction ==
    /\ train_status = "ok"
    /\ \E real_example \in Sites :
          /\ site' = real_example
          /\ outcome' = prediction(real_example, most_impact, probs_given_y, p_y)
    /\ UNCHANGED <<tableVars, rankVars, most_impact, modelVars, fileVars, testVars>>

\* save_model(probs_given_y, p_y)
SaveModel ==
    /\ train_status = "ok"
    /\ probs_given_y' = save_model(probs_given_y, p_y)
    /\ model_txt' = [t |-> "file", v |-> json_dump(probs_given_y')]
    /\ UNCHANGED <<tableVars, rankVars, most_impact, p_y, train_status, model,
                   callVars, testVars>>

\* model = load_model()
LoadModel ==
    /\ model_txt.t = "file"
    /\ model' = PyDict(json_load(model_txt.v))
    /\ UNCHANGED <<tableVars, rankVars, most_impact, modelVars, model_txt, callVars,
                   testVars>>

\* test(most_impact, data_train, data_test), up to its loop
TestCall ==
    /\ test_status = "idle"
    /\ ~train_raises(most_impact, data_train)
    /\ test_model' = train(most_impact, data_train)
    /\ test_status' = "loop"
    /\ UNCHANGED <<tableVars, rankVars, most_impact, modelVars, fileVars, callVars,
                   test_done, tallyVars, printed>>

\* train raises inside test
TestCallRaises ==
    /\ test_status = "idle"
    /\ train_raises(most_impact, data_train)
    /\ test_status' = "ZeroDivisionError"
    /\ UNCHANGED <<tableVars, rankVars, most_impact, modelVars, fileVars, callVars,
                   test_model, test_done, tallyVars, printed>>

\* the loop body counting every record not predicted phishing as correctly
\* not phishing, whatever its label
TestStep_unlabelled ==
    /\ test_status = "loop"
    /\ test_done < Len(data_test)
    /\ LET a_site == data_test[test_done + 1]
           phishPredicted == prediction(a_site, most_impact, test_model[1], test_model[2])
       IN  /\ phishPredicted \notin Exceptions
           /\ actual_phish' = actual_phish + (IF a_site["Result"] = 1 THEN 1 ELSE 0)
           /\ predicted_phish' = predicted_phish + (IF phishPredicted = "True" THEN 1 ELSE 0)
           /\ correctly_phish' = correctly_phish +
                 (IF phishPredicted = "True" /\ a_site["Result"] = 1 THEN 1 ELSE 0)
           /\ correctly_not_phish' = correctly_not_phish +
                 (IF phishPredicted # "True" THEN 1 ELSE 0)
    /\ test_done' = test_done + 1
    /\ UNCHANGED <<tableVars, rankVars, most_impact, modelVars, fileVars, callVars,
                   test_status, test_model, printed>>

\* one pass of the loop over test_data
TestStep ==
    /\ test_status = "loop"
    /\ test_done < Len(data_test)
    /\ LET a_site == data_test[test_done + 1]
           phishPredicted == prediction(a_site, most_impact, test_model[1], test_model[2])
       IN  /\ phishPredicted \notin Exceptions
           /\ actual_phish' = actual_phish + (IF a_site["Result"] = 1 THEN 1 ELSE 0)
           /\ predicted_phish' = predicted_phish + (IF phishPredicted = "True" THEN 1 ELSE 0)
           /\ correctly_phish' = correctly_phish +
                 (IF phishPredicted = "True" /\ a_site["Result"] = 1 THEN 1 ELSE 0)
           /\ correctly_not_phish' = correctly_not_phish +
                 (IF phishPredicted # "True" /\ a_site["Result"] = -1 THEN 1 ELSE 0)
    /\ test_done' = test_done + 1
    /\ UNCHANGED <<tableVars, rankVars, most_impact, modelVars, fileVars, callVars,
                   test_status, test_model, printed>>

\* prediction raises inside the loop: test ends with the exception
TestStepRaises ==
    /\ test_status = "loop"
    /\ test_done < Len(data_test)
    /\ LET a_site == data_test[test_done + 1]
           phishPredicted == prediction(a_site, most_impact, test_model[1], test_model[2])
       IN  /\ phishPredicted \in Exceptions
           /\ test_status' = phishPredicted
    /\ UNCHANGED <<tableVars, rankVars, most_impact, modelVars, fileVars, callVars,
                   test_model, test_done, tallyVars, printed>>

\* the prints after the loop
TestReport ==
    /\ test_status = "loop"
    /\ test_done = Len(data_test)
    /\ LET r == report(correctly_phish, correctly_not_phish, predicted_phish,
                       actual_phish, Len(data_test))
       IN  /\ test_status' = r[1]
           /\ printed' = r[2]
    /\ UNCHANGED <<tableVars, rankVars, most_impact, modelVars, fileVars, callVars,
                   test_model, test_done, tallyVars>>

Next ==
    \/ Train
    \/ TrainRaises
    \/ Prediction
    \/ SaveModel
    \/ LoadModel

Spec == Init /\ [][Next]_vars

-----------------------------------------------------------------------------
(* Properties of the estimator, the predictor and the model file, under Spec *)

\* the values a feature itself takes in the rows of a dataset
OwnSupport(f, data) == {data[i][f] : i \in 1..Len(data)}

\* what train(most_impact, data_train) returns
Trained == train(most_impact, data_train)

\* C1: the table train returns has, for each selected feature, exactly one key
\* per distinct value the feature itself takes in the training rows, and no
\* key for a value only another selected feature takes.
C1_KeysAreOwnSupport ==
    train_status = "ok" =>
        \A f \in Range(most_impact) :
            probs_given_y[f].t = "dict" =>
                DOMAIN probs_given_y[f].v = {str(w) : w \in OwnSupport(f, data_train)}

\* C2: a prediction for a record whose value of some selected feature was
\* never observed for that feature in the training rows ends in an exception
\* and returns no verdict.
C2_UnseenValueRaises ==
    (/\ train_status = "ok"
     /\ outcome # "none"
     /\ \E f \in Range(most_impact) : site[f] \notin OwnSupport(f, data_train))
    => outcome \in Exceptions

\* C3: every conditional probability stored in the table, (count + 1) /
\* (total + 2), is strictly greater than 0 and strictly less than 1, for every
\* feature, every keyed value and both labels.
C3_SmoothingBounds ==
    train_status = "ok" =>
        \A f \in DOMAIN probs_given_y :
            probs_given_y[f].t = "dict" =>
                \A key \in DOMAIN probs_given_y[f].v : \A y \in 1..2 :
                    LET q == probs_given_y[f].v[key][y]
                    IN  0 < q[1] /\ q[1] < q[2]

\* C3's case: a trained table that holds a probability of a value with no row
\* of its class at all (1 / 2) and one of a value that never occurs in the
\* rows of a class that has rows (1 / (total + 2)).
C3_Witness ==
    /\ train_status = "ok"
    /\ \E f \in DOMAIN probs_given_y :
          /\ probs_given_y[f].t = "dict"
          /\ \E key \in DOMAIN probs_given_y[f].v : probs_given_y[f].v[key][1] = <<1, 2>>
    /\ \E f \in DOMAIN probs_given_y :
          /\ probs_given_y[f].t = "dict"
          /\ \E key \in DOMAIN probs_given_y[f].v :
                /\ probs_given_y[f].v[key][2][1] = 1
                /\ probs_given_y[f].v[key][2][2] > 2

\* the product over the features of X of the numerators (part = 1) or the
\* denominators (part = 2) of the record's probabilities given label y
RECURSIVE ProductOver(_, _, _, _, _, _)
ProductOver(i, a_site, X, table, y, part) ==
    IF i > Len(X) THEN 1
    ELSE table[X[i]].v[str(a_site[X[i]])][y][part]
         * ProductOver(i + 1, a_site, X, table, y, part)

\* p_y times the product of table[f][v][1] is strictly greater than (1 - p_y)
\* times the product of table[f][v][0], in exact arithmetic
PhishingScoreGreater(a_site, X, table, prior) ==
    prior[1] * ProductOver(1, a_site, X, table, 2, 1) * ProductOver(1, a_site, X, table, 1, 2)
    > (prior[2] - prior[1]) * ProductOver(1, a_site, X, table, 1, 1)
                            * ProductOver(1, a_site, X, table, 2, 2)

\* C4: a prediction that returns a verdict returns true exactly when p_y times
\* the product of the record's probabilities given phishing is strictly
\* greater than (1 - p_y) times the product of those given legitimate; on
\* equal scores it returns false.
C4_VerdictIsScoreComparison ==
    (train_status = "ok" /\ outcome \in {"True", "False"}) =>
        (outcome = "True" <=> PhishingScoreGreater(site, most_impact, Trained[1], Trained[2]))

\* C5: load_model after save_model of the model train produced yields that
\* model: each selected feature with its value keys and pairs, and the prior,
\* also when a selected feature is named p_y.
C5_RoundTrip ==
    (train_status = "ok" /\ model.t = "dict") =>
        /\ \A f \in Range(most_impact) :
              /\ f \in DOMAIN model.v
              /\ model.v[f].t = "dict"
              /\ model.v[f].v = Trained[1][f].v
        /\ "p_y" \in DOMAIN model.v
        /\ model.v["p_y"].t = "float"
        /\ model.v["p_y"].v = Trained[2]

\* C7: train never returns a model whose prior is exactly 0 or exactly 1:
\* training data with no row of one class ends train in an error.
C7_NoDegeneratePrior ==
    train_status = "ok" => (0 < p_y[1] /\ p_y[1] < p_y[2])

\* C10: after any sequence of save_model, load_model and prediction calls the
\* in-memory table has exactly the feature keys and entries train produced
\* and the prior is unchanged.
C10_ModelImmutable ==
    train_status = "ok" =>
        /\ DOMAIN probs_given_y = Range(most_impact)
        /\ \A f \in Range(most_impact) :
              /\ probs_given_y[f].t = "dict"
              /\ probs_given_y[f].v = Trained[1][f].v
        /\ p_y = Trained[2]

\* The ranker on a loaded dataset.
InitRanker ==
    /\ data_raw \in Datasets \ {<<>>}
    /\ data_train = <<>>
    /\ data_test = <<>>
    /\ most_impact = <<>>
    /\ InitRank /\ InitModel /\ InitTest

NextRanker == CalcFeatureImpact

SpecRanker == InitRanker /\ [][NextRanker]_vars

-----------------------------------------------------------------------------
(* Properties of the ranker, under SpecRanker *)

\* calc_feature_impact has run
Ranked == sorted_ratios # <<>>

\* the ratio of a candidate column under the threshold of the last call
RatioOfColumn(i) == ratio_of(i, threshold, data_raw)

ColumnOf(name) == CHOOSE i \in FeatureColumns : names[i] = name

\* the column's value is >= 0 exactly on the rows with Result = 1
PerfectAt0(i) ==
    \A r \in 1..Len(data_raw) : (data_raw[r][names[i]] >= 0) <=> (data_raw[r]["Result"] = 1)

BothClasses(data) ==
    /\ \E r \in 1..Len(data) : data[r]["Result"] = 1
    /\ \E r \in 1..Len(data) : data[r]["Result"] = -1

Min(a, b) == IF a < b THEN a ELSE b

\* C8: calc_feature_impact(threshold, k) returns the last k entries of the
\* ascending ranking: exactly min(k, N) distinct features of the N candidates,
\* in ascending ratio order, each with a ratio at least that of every
\* candidate not returned.
C8_TopKSelected ==
    Ranked =>
        LET N == Len(names) - 2
            m == Min(n_features, N)
        IN  /\ Len(most_impact) = m
            /\ Cardinality(Range(most_impact)) = Len(most_impact)
            /\ most_impact = [j \in 1..m |-> names[sorted_ratios[N - m + j][1]]]
            /\ \A j \in 1..(Len(most_impact) - 1) :
                  ~MagnitudeLess(RatioOfColumn(ColumnOf(most_impact[j + 1])),
                                 RatioOfColumn(ColumnOf(most_impact[j])))
            /\ \A f \in Range(most_impact) : \A g \in FeatureNames \ Range(most_impact) :
                  ~MagnitudeLess(RatioOfColumn(ColumnOf(f)), RatioOfColumn(ColumnOf(g)))

\* the ratio of column i is at least that of every other candidate and
\* strictly greater than that of any candidate not perfectly predictive
RatioIsGreatest(i) ==
    \A j \in FeatureColumns \ {i} :
        /\ ~MagnitudeLess(RatioOfColumn(i), RatioOfColumn(j))
        /\ ~PerfectAt0(j) => MagnitudeLess(RatioOfColumn(j), RatioOfColumn(i))

\* column i is the last entry of the ranking and is selected when k >= 1
LastAndSelected(i) ==
    /\ sorted_ratios[Len(sorted_ratios)][1] = i
    /\ n_features >= 1 => names[i] \in Range(most_impact)

\* C9 as stated: on a dataset with rows of both classes, a feature that
\* perfectly predicts the label at threshold 0 has a ratio at least that of
\* every other candidate and strictly greater than that of any candidate not
\* perfectly predictive, is placed last in the ranking and is selected for
\* every k >= 1.
C9_PerfectFeatureIsLast ==
    (Ranked /\ threshold = 0 /\ BothClasses(data_raw)) =>
        \A i \in FeatureColumns :
            PerfectAt0(i) => (RatioIsGreatest(i) /\ LastAndSelected(i))

\* C9 as amended: on a dataset with rows of both classes, a feature that
\* perfectly predicts the label at threshold 0 has a ratio at least that of
\* every other candidate and strictly greater than that of any candidate not
\* perfectly predictive; it is placed last in the ranking and selected for
\* every k >= 1 when no column after it is perfectly predictive too (equal
\* ratios keep their column order).
C9_PerfectFeatureRanksTop ==
    (Ranked /\ threshold = 0 /\ BothClasses(data_raw)) =>
        \A i \in FeatureColumns :
            PerfectAt0(i) =>
                /\ RatioIsGreatest(i)
                /\ (\A j \in FeatureColumns : j > i => ~PerfectAt0(j)) => LastAndSelected(i)

\* C9's case: the ranker has run at threshold 0 with k >= 1 on a dataset of
\* both classes whose first candidate column is perfectly predictive and
\* whose later column is not.
C9_Witness ==
    /\ Ranked /\ threshold = 0 /\ BothClasses(data_raw) /\ n_features >= 1
    /\ \E i \in FeatureColumns :
          /\ PerfectAt0(i)
          /\ \E j \in FeatureColumns : j > i /\ ~PerfectAt0(j)


\* the greatest number of rows of the partitions handed to test
MaxTestRows == 2

TestDatasets == {d \in Datasets : Len(d) <= MaxTestRows}

\* The evaluator on a training and a test partition.
InitEvaluator ==
    /\ data_raw = <<>>
    /\ data_train \in TestDatasets
    /\ data_test \in TestDatasets
    /\ most_impact \in FeatureLists
    /\ InitRank /\ InitModel /\ InitTest

NextEvaluator ==
    \/ TestCall
    \/ TestCallRaises
    \/ TestStep
    \/ TestStepRaises
    \/ TestReport

SpecEvaluator == InitEvaluator /\ [][NextEvaluator]_vars

-----------------------------------------------------------------------------
(* Properties of the evaluator, under SpecEvaluator *)

\* C6: when test has processed every record of a non-empty test partition and
\* no record was predicted phishing, or none is phishing, test completes
\* without a division fault, having printed the accuracy.
C6_UndefinedMetricsReported ==
    (/\ test_status \notin {"idle", "loop"}
     /\ Len(data_test) > 0
     /\ test_done = Len(data_test)
     /\ (predicted_phish = 0 \/ actual_phish = 0))
    => (/\ test_status = "returned"
        /\ Len(printed) >= 1
        /\ printed[1][1] = "Accuracy")

\* the verdict of test's model on the r-th record of the test partition
PredictedOf(r) == prediction(data_test[r], most_impact, test_model[1], test_model[2])

IsPhish(r) == data_test[r]["Result"] = 1

\* the prediction of the r-th record matches its label
Matches(r) ==
    \/ PredictedOf(r) = "True" /\ data_test[r]["Result"] = 1
    \/ PredictedOf(r) = "False" /\ data_test[r]["Result"] = -1

\* the records the loop has processed
Processed == 1..test_done

\* C12: after every prefix of test records processed, the four tallies are the
\* counts over the prefix of the records that are phishing, predicted phishing,
\* both, and both legitimate; correctly_phish is at most either of actual_phish
\* and predicted_phish, the two correct tallies together at most the number of
\* records processed, and the numerator of the accuracy printed is the number
\* of records whose prediction matches their label.
C12_TalliesCountPrefix ==
    /\ actual_phish = Cardinality({r \in Processed : IsPhish(r)})
    /\ predicted_phish = Cardinality({r \in Processed : PredictedOf(r) = "True"})
    /\ correctly_phish =
          Cardinality({r \in Processed : PredictedOf(r) = "True" /\ IsPhish(r)})
    /\ correctly_not_phish =
          Cardinality({r \in Processed : PredictedOf(r) = "False" /\ ~IsPhish(r)})
    /\ correctly_phish <= Min(actual_phish, predicted_phish)
    /\ correctly_phish + correctly_not_phish <= test_done
    /\ Len(printed) >= 1 =>
          printed[1][2][1] = Cardinality({r \in 1..Len(data_test) : Matches(r)})

\* two records processed and the accuracy printed: a legitimate record predicted
\* phishing and a phishing record predicted phishing
C12_Witness ==
    /\ test_done = 2
    /\ Len(printed) >= 1
    /\ actual_phish = 1
    /\ predicted_phish = 2
    /\ correctly_phish = 1
    /\ correctly_not_phish = 0

-----------------------------------------------------------------------------
(* Training and prediction on larger training partitions *)

\* the greatest number of rows of a training partition of SpecConsistency
MaxModeRows == 5

ModeDatasets == UNION {{MakeRows(ks) : ks \in KindSeqs(n)} : n \in 0..MaxModeRows}

InitConsistency ==
    /\ data_raw = <<>>
    /\ data_test = <<>>
    /\ data_train \in ModeDatasets
    /\ most_impact \in FeatureLists
    /\ InitRank /\ InitModel /\ InitTest

NextConsistency ==
    \/ Train
    \/ TrainRaises
    \/ Prediction

SpecConsistency == InitConsistency /\ [][NextConsistency]_vars

-----------------------------------------------------------------------------
(* Prediction consistency, under SpecConsistency *)

\* the number of rows of class y, and of those the rows where feature f is v
ClassSize(data, y) == Cardinality({r \in 1..Len(data) : data[r]["Result"] = y})

ClassCount(data, y, f, v) ==
    Cardinality({r \in 1..Len(data) : data[r]["Result"] = y /\ data[r][f] = v})

\* both classes occur and class M has more rows than the other class
StrictMajority(data, M) ==
    /\ BothClasses(data)
    /\ ClassSize(data, M) > ClassSize(data, -M)

\* the record gives each selected feature a most frequent value of the feature
\* among the rows of class M
IsModeRecord(a_site, X, data, M) ==
    \A j \in 1..Len(X) : \A w \in Codes :
        ClassCount(data, M, X[j], a_site[X[j]]) >= ClassCount(data, M, X[j], w)

Verdict(M) == IF M = 1 THEN "True" ELSE "False"

\* a prediction was made with the model trained on data_train
Predicted == train_status = "ok" /\ outcome # "none"

\* C11: for training data with rows of both classes and a strict majority
\* class M, prediction for a record that gives each selected feature its most
\* frequent value among the rows of class M returns M.
C11_ModeRecordGetsMajority ==
    Predicted =>
        \A M \in Labels :
            (StrictMajority(data_train, M) /\ IsModeRecord(site, most_impact, data_train, M))
                => outcome = Verdict(M)

\* the smoothed probability of each selected feature's value in the record is
\* at least as great given class M as given the other class
AtLeastAsLikely(a_site, X, data, M) ==
    \A j \in 1..Len(X) :
        LET given_M == cond_prob(X[j], a_site[X[j]], M, data)
            given_other == cond_prob(X[j], a_site[X[j]], -M, data)
        IN  given_M[1] * given_other[2] >= given_other[1] * given_M[2]

\* C11 as amended: the mode record of the strict majority class M gets the
\* verdict M whenever each of its selected values is at least as likely given
\* M as given the other class.
C11_LikelyModeRecordGetsMajority ==
    Predicted =>
        \A M \in Labels :
            (/\ StrictMajority(data_train, M)
             /\ IsModeRecord(site, most_impact, data_train, M)
             /\ AtLeastAsLikely(site, most_impact, data_train, M))
                => outcome = Verdict(M)

\* a mode record over two features, not the value of every row of the majority
\* class, got the majority's verdict
C11_Witness ==
    /\ Predicted
    /\ Len(most_impact) = 2
    /\ \E M \in Labels :
          /\ StrictMajority(data_train, M)
          /\ IsModeRecord(site, most_impact, data_train, M)
          /\ AtLeastAsLikely(site, most_impact, data_train, M)
          /\ \E r \in 1..Len(data_train) :
                /\ data_train[r]["Result"] = M
                /\ data_train[r][most_impact[1]] # site[most_impact[1]]
          /\ outcome = Verdict(M)

-----------------------------------------------------------------------------
(* The split of the table into the training and the test partition *)

\* the greatest number of rows of a table that is split
MaxSplitRows == 4

\* the least number of rows train_test_split leaves a row in each partition of
MinSplitRows == 2

SplitTables ==
    UNION {{MakeRows(ks) : ks \in KindSeqs(n)} : n \in MinSplitRows..MaxSplitRows}

\* ceil(test_size * n) for test_size = 0.3
n_test(n) == (3 * n + 9) \div 10

\* the orders train_test_split can shuffle n rows into
Shuffles(n) ==
    {perm \in [1..n -> 1..n] : \A i, j \in 1..n : perm[i] = perm[j] => i = j}

\* a_list[:stop], for a stop of either sign
slice_to(a_list, stop) ==
    LET n == Len(a_list)
        last == IF stop >= 0 THEN (IF stop < n THEN stop ELSE n)
                ELSE (IF n + stop > 0 THEN n + stop ELSE 0)
    IN  SubSeq(a_list, 1, last)

\* the split and the rebinding of data_test that follows it
TrainTestSplit ==
    /\ data_train = <<>>
    /\ Len(data_raw) >= MinSplitRows
    /\ \E perm \in Shuffles(Len(data_raw)) :
          LET n == Len(data_raw)
              test_part == [i \in 1..n_test(n) |-> data_raw[perm[i]]]
              train_part == [i \in 1..(n - n_test(n)) |-> data_raw[perm[n_test(n) + i]]]
          IN  /\ data_train' = train_part
              /\ data_test' = slice_to(test_part, -1)
    /\ UNCHANGED <<data_raw, rankVars, most_impact, modelVars, fileVars, callVars,
                   testVars>>

InitSplit ==
    /\ data_raw \in SplitTables
    /\ data_train = <<>>
    /\ data_test = <<>>
    /\ most_impact = <<>>
    /\ InitRank /\ InitModel /\ InitTest

NextSplit == TrainTestSplit

SpecSplit == InitSplit /\ [][NextSplit]_vars

-----------------------------------------------------------------------------
(* Properties of the partitions, under SpecSplit *)

\* the identifiers of the rows of a dataset
Ids(data) == {data[r]["id"] : r \in 1..Len(data)}

\* the split has been made: it leaves at least one training row
SplitDone == data_train # <<>>

\* C13: after the split and the step that follows it, no row is missing: the
\* test partition has every row the split put in the test subset, each row
\* with its Result label, and the training and test partitions are disjoint
\* and together hold every row of the table.
C13_NoRowRemoved ==
    SplitDone =>
        /\ Len(data_test) = n_test(Len(data_raw))
        /\ \A r \in 1..Len(data_test) : data_test[r]["Result"] \in Labels
        /\ Ids(data_train) \cap Ids(data_test) = {}
        /\ Ids(data_train) \cup Ids(data_test) = Ids(data_raw)

====
